---- MODULE Spec2Model ----
(***************************************************************************)
(* Model of the mtcli "validate" command of addon-metadata-operator:       *)
(*   - the validators Registry (pkg/validators, src/unnamed/part_001),     *)
(*   - validateMain and its argument checks (src/internal/cmd/validate.go),*)
(*   - rule AM0004 icon_base64 (src/pkg/validators/am0004_icon_base64.go). *)
(* Strings whose contents are inspected by the code (the version, the      *)
(* icon) are sequences of one-character strings; strings that are only     *)
(* compared for equality (env, codes, messages) are TLA+ strings.          *)
(***************************************************************************)
EXTENDS Integers, Sequences, FiniteSets, TLC

VARIABLES
    Data,             \* defaultRegistry.Data : map[string]Validator
    panicked,         \* log.Panicf was called by Add
    added,            \* history: validators for which Add returned normally
    lastAdd,          \* history: argument and pre-state of the last Add call
    nAdds,            \* history: number of Add calls made
    initData,         \* history: Data when the init() functions had all run
    view,             \* a caller holds the map returned by All()
    ret,              \* last value returned by Len()/Get()
    pc,               \* position of the process
    exitCode,         \* process exit status, meaningful when pc = "exited"
    failMsg,          \* which fail(...) call ended the run ("" if none)
    failErr,          \* the error that fail(...) call reported
    validateEnv, validateVersion, validateDisabled, validateEnabled,
    arg0,             \* what args[0] names on the file system
    meta,             \* result of MetaLoader.Load
    bundles,          \* result of extractor.ExtractBundles
    filter,           \* result of validate.NewFilter
    results,          \* outcomes of the rules run so far by ValidateCLI
    success, errs,    \* values returned by ValidateCLI
    calls,            \* history: collaborator / I/O calls in program order
    tpc, tval,        \* concurrent Add: each goroutine's position and argument
    crashed           \* the Go runtime killed the process (concurrent map access)

regVars  == <<Data, panicked, added, lastAdd, nAdds, initData, view, ret>>
flagVars == <<validateEnv, validateVersion, validateDisabled, validateEnabled, arg0>>
runVars  == <<meta, bundles, filter, results, success, errs>>
concVars == <<tpc, tval, crashed>>
exitVars == <<pc, exitCode, failMsg, failErr>>
vars == <<regVars, exitVars, flagVars, runVars, calls, concVars>>

----------------------------------------------------------------------------
(* Bounds of the model *)

MaxAdds == 3        \* Add calls made by init() functions
MaxFields == 1      \* comma-separated fields in --enabled / --disabled
MaxVerLen == 5      \* characters of an enumerated --version string
MaxIconLen == 4     \* characters of an enumerated icon string
NumGoroutines == 2  \* goroutines calling Add concurrently

----------------------------------------------------------------------------
(* Values *)

None == "none"

\* types.Validator values; two of them share Code AM0004.
AM0004 == [Code |-> "AM0004", Name |-> "icon_base64"]

AM0001 == [Code |-> "AM0001", Name |-> "default_channel"]

AM0004Dup == [Code |-> "AM0004", Name |-> "other"]

Validators == {AM0001, AM0004, AM0004Dup}

\* Codes in ascending order.
CodeOrder == <<"AM0001", "AM0004">>

Latest == <<"l", "a", "t", "e", "s", "t">>

SeqsUpTo(S, n) == UNION {[1..k -> S] : k \in 0..n}

----------------------------------------------------------------------------
(* Registry: src/unnamed/part_001 *)

\* NewValidatorsRegistry: an empty map.
NewValidatorsRegistry == << >>

\* r.Data[v.Code] = v
MapPut(d, v) == [c \in (DOMAIN d) \cup {v.Code} |-> IF c = v.Code THEN v ELSE d[c]]

\* delete(m, c)
MapDelete(d, c) == [k \in (DOMAIN d) \ {c} |-> d[k]]

\* Add without its duplicate check
AddExistsNoCheck(d, v) == FALSE

\* The condition of Add's if statement: _, ok := r.Data[v.Code]
AddExists(d, v) == v.Code \in DOMAIN d

RegistryLen(d) == Cardinality(DOMAIN d)

RegistryGet(d, k) ==
    IF k \in DOMAIN d THEN [v |-> d[k], ok |-> TRUE] ELSE [v |-> None, ok |-> FALSE]

----------------------------------------------------------------------------
(* golang.org/x/mod/semver.IsValid, as called by verifyVersion *)

Digits == {"0", "1", "2", "3", "4", "5", "6", "7", "8", "9"}

Letters == {"a", "c", "e", "l", "r", "s", "t", "v", "x"}

IsDigit(c) == c \in Digits

IsIdentChar(c) == c \in Digits \cup Letters \cup {"-"}

Tail2(v, i) == SubSeq(v, i, Len(v))

\* number of leading digits of v
RECURSIVE DigitRun(_)
DigitRun(v) == IF v = <<>> \/ ~IsDigit(v[1]) THEN 0 ELSE 1 + DigitRun(Tail(v))

\* semver.parseInt: a non-empty digit run without a leading zero
ParseInt(v) ==
    IF v = <<>> \/ ~IsDigit(v[1]) THEN [ok |-> FALSE, rest |-> v]
    ELSE LET i == DigitRun(v) IN
         IF v[1] = "0" /\ i # 1 THEN [ok |-> FALSE, rest |-> v]
         ELSE [ok |-> TRUE, rest |-> Tail2(v, i + 1)]

\* semver.isBadNum
IsBadNum(s) == DigitRun(s) = Len(s) /\ Len(s) > 1 /\ s[1] = "0"

\* the loop of semver.parsePrerelease from index i (1-based) with the current
\* identifier starting at start; 0 when the input is rejected, else the index
\* one past the prerelease
RECURSIVE PrereleaseScan(_, _, _)
PrereleaseScan(v, i, start) ==
    IF i <= Len(v) /\ v[i] # "+"
    THEN IF ~IsIdentChar(v[i]) /\ v[i] # "." THEN 0
         ELSE IF v[i] = "."
              THEN IF start = i \/ IsBadNum(SubSeq(v, start, i - 1)) THEN 0
                   ELSE PrereleaseScan(v, i + 1, i + 1)
              ELSE PrereleaseScan(v, i + 1, start)
    ELSE IF start = i \/ IsBadNum(SubSeq(v, start, i - 1)) THEN 0 ELSE i

ParsePrerelease(v) ==
    IF v = <<>> \/ v[1] # "-" THEN [ok |-> FALSE, rest |-> v]
    ELSE LET i == PrereleaseScan(v, 2, 2) IN
         IF i = 0 THEN [ok |-> FALSE, rest |-> v] ELSE [ok |-> TRUE, rest |-> Tail2(v, i)]

RECURSIVE BuildScan(_, _, _)
BuildScan(v, i, start) ==
    IF i <= Len(v)
    THEN IF ~IsIdentChar(v[i]) /\ v[i] # "." THEN 0
         ELSE IF v[i] = "."
              THEN IF start = i THEN 0 ELSE BuildScan(v, i + 1, i + 1)
              ELSE BuildScan(v, i + 1, start)
    ELSE IF start = i THEN 0 ELSE i

ParseBuild(v) ==
    IF v = <<>> \/ v[1] # "+" THEN [ok |-> FALSE, rest |-> v]
    ELSE LET i == BuildScan(v, 2, 2) IN
         IF i = 0 THEN [ok |-> FALSE, rest |-> v] ELSE [ok |-> TRUE, rest |-> Tail2(v, i)]

\* what follows the patch number: optional prerelease, optional build, then end
SemverSuffixOK(v) ==
    LET afterPre == IF v # <<>> /\ v[1] = "-" THEN ParsePrerelease(v) ELSE [ok |-> TRUE, rest |-> v]
    IN  /\ afterPre.ok
        /\ LET w == afterPre.rest
               afterBuild == IF w # <<>> /\ w[1] = "+" THEN ParseBuild(w) ELSE [ok |-> TRUE, rest |-> w]
           IN afterBuild.ok /\ afterBuild.rest = <<>>

\* semver.parse(v).ok: vMAJOR[.MINOR[.PATCH[-PRERELEASE][+BUILD]]]
SemverIsValid(v) ==
    IF v = <<>> \/ v[1] # "v" THEN FALSE
    ELSE LET major == ParseInt(Tail(v)) IN
         IF ~major.ok THEN FALSE
         ELSE IF major.rest = <<>> THEN TRUE
         ELSE IF major.rest[1] # "." THEN FALSE
         ELSE LET minor == ParseInt(Tail(major.rest)) IN
              IF ~minor.ok THEN FALSE
              ELSE IF minor.rest = <<>> THEN TRUE
              ELSE IF minor.rest[1] # "." THEN FALSE
              ELSE LET patch == ParseInt(Tail(minor.rest)) IN
                   IF ~patch.ok THEN FALSE ELSE SemverSuffixOK(patch.rest)

----------------------------------------------------------------------------
(* Argument checks: src/internal/cmd/validate.go *)

\* a nil error
Nil == [kind |-> "nil"]

IsErr(e) == e.kind # "nil"

\* verifyEnv: nil or an error naming env
verifyEnv(env) ==
    IF env # "integration" /\ env # "stage" /\ env # "production"
    THEN [kind |-> "not a valid environment", env |-> env]
    ELSE Nil

\* verifyVersion: nil or an error naming version
verifyVersion(version) ==
    IF version = <<>> THEN Nil
    ELSE IF version # Latest /\ ~SemverIsValid(<<"v">> \o version)
         THEN [kind |-> "not a valid version", version |-> version]
         ELSE Nil

\* verifyAddonDir: os.Stat of the path, then IsDir
verifyAddonDir(dirKind) ==
    IF dirKind = "missing" THEN [kind |-> "error while reading directory", dir |-> dirKind]
    ELSE IF dirKind # "dir" THEN [kind |-> "is not a directory", dir |-> dirKind]
    ELSE Nil

\* verifyArgsAndFlags without the call to verifyEnv
verifyArgsAndFlagsNoEnv(dirKind, env, version) ==
    IF IsErr(verifyAddonDir(dirKind)) THEN verifyAddonDir(dirKind)
    ELSE verifyVersion(version)

\* verifyArgsAndFlags: the first error of the three checks, in order
verifyArgsAndFlags(dirKind, env, version) ==
    IF IsErr(verifyAddonDir(dirKind)) THEN verifyAddonDir(dirKind)
    ELSE IF IsErr(verifyEnv(env)) THEN verifyEnv(env)
    ELSE verifyVersion(version)

\* parseAddonDir: filepath.Abs of a relative path fails when the working
\* directory cannot be determined
parseAddonDir(dirKind) ==
    IF dirKind = "nocwd" THEN [kind |-> "abs", dir |-> dirKind] ELSE Nil

----------------------------------------------------------------------------
(* Rule AM0004: src/pkg/validators/am0004_icon_base64.go *)

\* encoding/base64 StdEncoding: value of an alphabet character (the characters
\* the model's icons use), -1 for any other character
B64Value(c) ==
    CASE c = "B" -> 1
      [] c = "G" -> 6
      [] c = "K" -> 10
      [] c = "O" -> 14
      [] c = "R" -> 17
      [] c = "V" -> 21
      [] c = "g" -> 32
      [] c = "i" -> 34
      [] c = "o" -> 40
      [] c = "w" -> 48
      [] c = "0" -> 52
      [] OTHER -> -1

IsB64Char(c) == B64Value(c) >= 0

\* one 4-character quantum; last: it is the final quantum of the input
B64Quantum(q, last) ==
    IF ~IsB64Char(q[1]) \/ ~IsB64Char(q[2]) THEN [ok |-> FALSE, bytes |-> <<>>]
    ELSE LET n12 == B64Value(q[1]) * 262144 + B64Value(q[2]) * 4096 IN
         IF q[3] = "="
         THEN IF q[4] = "=" /\ last
              THEN [ok |-> TRUE, bytes |-> <<n12 \div 65536>>]
              ELSE [ok |-> FALSE, bytes |-> <<>>]
         ELSE IF ~IsB64Char(q[3]) THEN [ok |-> FALSE, bytes |-> <<>>]
         ELSE LET n123 == n12 + B64Value(q[3]) * 64 IN
              IF q[4] = "="
              THEN IF last
                   THEN [ok |-> TRUE, bytes |-> <<n123 \div 65536, (n123 \div 256) % 256>>]
                   ELSE [ok |-> FALSE, bytes |-> <<>>]
              ELSE IF ~IsB64Char(q[4]) THEN [ok |-> FALSE, bytes |-> <<>>]
              ELSE LET n == n123 + B64Value(q[4]) IN
                   [ok |-> TRUE, bytes |-> <<n \div 65536, (n \div 256) % 256, n % 256>>]

\* base64.StdEncoding.DecodeString: ok is FALSE where Go returns an error
RECURSIVE B64Decode(_)
B64Decode(s) ==
    IF s = <<>> THEN [ok |-> TRUE, bytes |-> <<>>]
    ELSE IF Len(s) < 4 THEN [ok |-> FALSE, bytes |-> <<>>]
    ELSE LET q == B64Quantum(SubSeq(s, 1, 4), Len(s) = 4)
             r == B64Decode(Tail2(s, 5))
         IN IF q.ok /\ r.ok THEN [ok |-> TRUE, bytes |-> q.bytes \o r.bytes]
            ELSE [ok |-> FALSE, bytes |-> <<>>]

\* the 8-byte PNG signature png.Decode checks first
PngHeader == <<137, 80, 78, 71, 13, 10, 26, 10>>

\* png.Decode(bytes) returns no error.  Only the signature check is modelled;
\* the chunk stream after it is taken to be well formed.
PngDecodeOK(bytes) ==
    Len(bytes) >= Len(PngHeader) /\ SubSeq(bytes, 1, Len(PngHeader)) = PngHeader

MsgNotFound == "icon not found under the addon metadata"

MsgNotBase64 == "icon found to be improperly base64 populated under the addon metadata"

MsgNotPng == "icon base64 value found to correspond to a non-png data under the addon metadata"

\* ValidateIconBase64 returning the base64 decoding error as a hard error
ValidateIconBase64DecodeErr(metabundle) ==
    LET icon == metabundle.AddonMeta.Icon IN
    IF icon = <<>>
    THEN [passed |-> FALSE, msg |-> MsgNotFound, err |-> Nil]
    ELSE LET b64decoded == B64Decode(icon) IN
         IF ~b64decoded.ok
         THEN [passed |-> FALSE, msg |-> "", err |-> [kind |-> "illegal base64 data"]]
         ELSE [passed |-> PngDecodeOK(b64decoded.bytes), msg |-> MsgNotPng, err |-> Nil]

\* ValidateIconBase64(metabundle) -> (bool, string, error)
ValidateIconBase64(metabundle) ==
    LET icon == metabundle.AddonMeta.Icon IN
    IF icon = <<>>
    THEN [passed |-> FALSE, msg |-> MsgNotFound, err |-> Nil]
    ELSE LET b64decoded == B64Decode(icon) IN
         IF ~b64decoded.ok
         THEN [passed |-> FALSE, msg |-> MsgNotBase64, err |-> Nil]
         ELSE [passed |-> PngDecodeOK(b64decoded.bytes), msg |-> MsgNotPng, err |-> Nil]

----------------------------------------------------------------------------
(* Selection filter and orchestrator (pkg/validate), from sections 4.2 and 4.4 *)

\* strings.TrimSpace on a field given as a sequence of symbols, " " being
\* white space
RECURSIVE TrimLeft(_)
TrimLeft(f) == IF f # <<>> /\ f[1] = " " THEN TrimLeft(Tail(f)) ELSE f

RECURSIVE TrimRight(_)
TrimRight(f) ==
    IF f # <<>> /\ f[Len(f)] = " " THEN TrimRight(SubSeq(f, 1, Len(f) - 1)) ELSE f

TrimSpace(f) == TrimRight(TrimLeft(f))

\* the set of codes of a comma-separated list, given as its sequence of fields
\* (the empty string is the single empty field); empty fields are ignored
ParseCSV(csv) == {TrimSpace(csv[i]) : i \in DOMAIN csv} \ {<<>>}

\* a parsed field names a key of the registry
IsRegistered(d, f) == Len(f) = 1 /\ f[1] \in DOMAIN d

\* NewFilter(disabledCSV, enabledCSV), checked against the live registry d
NewFilter(disabledCSV, enabledCSV, d) ==
    LET disabled == ParseCSV(disabledCSV)
        enabled == ParseCSV(enabledCSV)
    IN  IF disabled # {} /\ enabled # {}
        THEN [err |-> [kind |-> "mutually exclusive"], disabled |-> {}, enabled |-> {}]
        ELSE IF \E f \in disabled \cup enabled : ~IsRegistered(d, f)
        THEN [err |-> [kind |-> "unknown code"], disabled |-> {}, enabled |-> {}]
        ELSE [err |-> Nil,
              disabled |-> {f[1] : f \in disabled},
              enabled |-> {f[1] : f \in enabled}]

\* filter.Includes(rule)
Includes(f, code) ==
    IF f.enabled # {} THEN code \in f.enabled
    ELSE IF f.disabled # {} THEN code \notin f.disabled
    ELSE TRUE

\* the codes ValidateCLI runs, in ascending order
Selected(d, f) ==
    SelectSeq(CodeOrder, LAMBDA c : c \in DOMAIN d /\ Includes(f, c))

\* the outcomes a rule whose body is not modelled may return
RunnerOutcomes ==
    { [passed |-> TRUE, msg |-> "", err |-> Nil],
      [passed |-> FALSE, msg |-> "violation", err |-> Nil],
      [passed |-> FALSE, msg |-> "", err |-> [kind |-> "rule could not run"]] }

\* the outcomes rule.Runner(subject) may return
Runner(v, subject) ==
    IF v = AM0004 THEN {ValidateIconBase64(subject)} ELSE RunnerOutcomes

\* ValidateCLI's overall verdict and its hard errors over the outcomes rs
Failures(rs) == SelectSeq(rs, LAMBDA r : ~IsErr(r.err) /\ ~r.passed)

HardErrors(rs) == SelectSeq(rs, LAMBDA r : IsErr(r.err))

----------------------------------------------------------------------------
(* Inputs *)

\* --env values tried besides the default
EnvArgs == {"production", "dev"}

\* --version values tried besides the default
VersionArgs == {<<"2", ".", "1", ".", "0">>, <<"2", ".", "1", ".", "x">>, Latest}

\* fields of --enabled / --disabled
FieldArgs == {<<>>, <<"AM0001">>, <<" ", "AM0004", " ">>, <<"AM9999">>}

CSVArgs == UNION {[1..k -> FieldArgs] : k \in 1..MaxFields}

\* what args[0] may name
DirArgs == {"dir", "file", "missing", "nocwd"}

\* the PNG signature, base64 encoded
PngIcon == <<"i", "V", "B", "O", "R", "w", "0", "K", "G", "g", "o", "=">>

\* icons of the metadata files tried
IconArgs == {<<>>, <<"i", "V", "B", "O">>, <<"i", "V", "!", "O">>, PngIcon}

Goroutines == 1..NumGoroutines

----------------------------------------------------------------------------
(* Initial state: package-level variables before any init() has run *)

Init ==
    /\ Data = NewValidatorsRegistry
    /\ panicked = FALSE
    /\ added = {}
    /\ lastAdd = [called |-> FALSE]
    /\ nAdds = 0
    /\ initData = << >>
    /\ view = FALSE
    /\ ret = [op |-> "none"]
    /\ pc = "init"
    /\ exitCode = 0
    /\ failMsg = ""
    /\ failErr = Nil
    /\ validateEnv = "stage"
    /\ validateVersion = <<>>
    /\ validateDisabled = << <<>> >>
    /\ validateEnabled = << <<>> >>
    /\ arg0 = ""
    /\ meta = [loaded |-> FALSE, Icon |-> <<>>]
    /\ bundles = "none"
    /\ filter = [err |-> Nil, disabled |-> {}, enabled |-> {}]
    /\ results = <<>>
    /\ success = FALSE
    /\ errs = <<>>
    /\ calls = <<>>
    /\ tpc = [g \in Goroutines |-> "idle"]
    /\ tval = [g \in Goroutines |-> AM0004]
    /\ crashed = FALSE

----------------------------------------------------------------------------
(* Registry operations *)

\* func (r *defaultRegistry) Add(v), called from an init() function.
\* log.Panicf in an init() function ends the process with status 2.
Add(v) ==
    /\ pc = "init"
    /\ nAdds < MaxAdds
    /\ nAdds' = nAdds + 1
    /\ lastAdd' = [called |-> TRUE, v |-> v, pre |-> Data]
    /\ IF AddExists(Data, v)
       THEN /\ panicked' = TRUE
            /\ pc' = "exited"
            /\ exitCode' = 2
            /\ UNCHANGED <<Data, added>>
       ELSE /\ Data' = MapPut(Data, v)
            /\ added' = added \cup {v}
            /\ UNCHANGED <<panicked, pc, exitCode>>
    /\ UNCHANGED <<initData, view, ret, failMsg, failErr, flagVars, runVars, calls, concVars>>

\* every init() function has returned; the runtime calls main
InitDone ==
    /\ pc = "init"
    /\ pc' = "main"
    /\ initData' = Data
    /\ UNCHANGED <<Data, panicked, added, lastAdd, nAdds, view, ret, exitCode, failMsg,
                   failErr, flagVars, runVars, calls, concVars>>

Running == pc \notin {"init", "exited"}

\* func (r *defaultRegistry) Len()
CallLen ==
    /\ Running
    /\ ret' = [op |-> "Len", n |-> RegistryLen(Data)]
    /\ UNCHANGED <<Data, panicked, added, lastAdd, nAdds, initData, view, exitVars,
                   flagVars, runVars, calls, concVars>>

\* func (r *defaultRegistry) Get(k)
CallGet(k) ==
    /\ Running
    /\ ret' = [op |-> "Get", k |-> k, r |-> RegistryGet(Data, k)]
    /\ UNCHANGED <<Data, panicked, added, lastAdd, nAdds, initData, view, exitVars,
                   flagVars, runVars, calls, concVars>>

\* func (r *defaultRegistry) All(): returns r.Data, the map itself
CallAll ==
    /\ Running
    /\ view' = TRUE
    /\ ret' = [op |-> "All"]
    /\ UNCHANGED <<Data, panicked, added, lastAdd, nAdds, initData, exitVars,
                   flagVars, runVars, calls, concVars>>

\* a caller assigns through the map All() returned: m[v.Code] = v
ViewPut(v) ==
    /\ Running
    /\ view
    /\ Data' = MapPut(Data, v)
    /\ UNCHANGED <<panicked, added, lastAdd, nAdds, initData, view, ret, exitVars,
                   flagVars, runVars, calls, concVars>>

\* a caller deletes through the map All() returned: delete(m, c)
ViewDelete(c) ==
    /\ Running
    /\ view
    /\ c \in DOMAIN Data
    /\ Data' = MapDelete(Data, c)
    /\ UNCHANGED <<panicked, added, lastAdd, nAdds, initData, view, ret, exitVars,
                   flagVars, runVars, calls, concVars>>

----------------------------------------------------------------------------
(* validateMain: src/internal/cmd/validate.go *)

\* the messages of validateMain's fail(1, ...) calls
FailDir == "unable to parse the provided directory"

FailFlag == "unable to process flag or argument"

FailLoad == "unable to load addon metadata"

FailExtract == "unable to extract and parse bundles"

FailFilter == "unable to process filter flags"

\* fail(1, msg, err): print and os.Exit(1)
Fail(msg, err) ==
    /\ pc' = "exited"
    /\ exitCode' = 1
    /\ failMsg' = msg
    /\ failErr' = err

\* cobra parses the command line into the flag variables (a flag that is not
\* given keeps its default) and calls validateMain with args[0]
ParseFlags(envs, versions, csvs, dirs) ==
    /\ pc = "main"
    /\ validateEnv' \in {validateEnv} \cup envs
    /\ validateVersion' \in {validateVersion} \cup versions
    /\ validateDisabled' \in {validateDisabled} \cup csvs
    /\ validateEnabled' \in {validateEnabled} \cup csvs
    /\ arg0' \in dirs
    /\ pc' = "parseAddonDir"
    /\ UNCHANGED <<regVars, exitCode, failMsg, failErr, runVars, calls, concVars>>

\* cobra rejects the command line (cobra.ExactArgs(1), an unknown flag):
\* Execute returns the error and main ends the process with status 1
UsageError ==
    /\ pc = "main"
    /\ pc' = "exited"
    /\ exitCode' = 1
    /\ UNCHANGED <<regVars, failMsg, failErr, flagVars, runVars, calls, concVars>>

\* lines 55-58
ParseAddonDirStep ==
    /\ pc = "parseAddonDir"
    /\ IF IsErr(parseAddonDir(arg0))
       THEN Fail(FailDir, parseAddonDir(arg0))
       ELSE pc' = "verify" /\ UNCHANGED <<exitCode, failMsg, failErr>>
    /\ UNCHANGED <<regVars, flagVars, runVars, calls, concVars>>

\* lines 60-62; verifyAddonDir calls os.Stat
VerifyStep ==
    /\ pc = "verify"
    /\ calls' = Append(calls, "os.Stat")
    /\ LET err == verifyArgsAndFlags(arg0, validateEnv, validateVersion) IN
       IF IsErr(err)
       THEN Fail(FailFlag, err)
       ELSE pc' = "load" /\ UNCHANGED <<exitCode, failMsg, failErr>>
    /\ UNCHANGED <<regVars, flagVars, runVars, concVars>>

\* lines 64-67; the loader fails or returns the metadata, whose icon is one of icons
LoadStep(icons) ==
    /\ pc = "load"
    /\ calls' = Append(calls, "MetaLoader.Load")
    /\ \/ /\ Fail(FailLoad, [kind |-> "load"])
          /\ UNCHANGED meta
       \/ /\ \E icon \in icons : meta' = [loaded |-> TRUE, Icon |-> icon]
          /\ pc' = "extract"
          /\ UNCHANGED <<exitCode, failMsg, failErr>>
    /\ UNCHANGED <<regVars, flagVars, bundles, filter, results, success, errs, concVars>>

\* ExtractStep going on after an extraction error
ExtractStepNoFail ==
    /\ pc = "extract"
    /\ calls' = Append(calls, "ExtractBundles")
    /\ \/ UNCHANGED bundles
       \/ bundles' = "extracted"
    /\ pc' = "filter"
    /\ UNCHANGED <<exitCode, failMsg, failErr>>
    /\ UNCHANGED <<regVars, flagVars, meta, filter, results, success, errs, concVars>>

\* lines 69-73
ExtractStep ==
    /\ pc = "extract"
    /\ calls' = Append(calls, "ExtractBundles")
    /\ \/ /\ Fail(FailExtract, [kind |-> "extract"])
          /\ UNCHANGED bundles
       \/ /\ bundles' = "extracted"
          /\ pc' = "filter"
          /\ UNCHANGED <<exitCode, failMsg, failErr>>
    /\ UNCHANGED <<regVars, flagVars, meta, filter, results, success, errs, concVars>>

\* FilterStep going on after a filter error
FilterStepNoFail ==
    /\ pc = "filter"
    /\ calls' = Append(calls, "NewFilter")
    /\ filter' = NewFilter(validateDisabled, validateEnabled, Data)
    /\ pc' = "validate"
    /\ UNCHANGED <<exitCode, failMsg, failErr>>
    /\ UNCHANGED <<regVars, flagVars, meta, bundles, results, success, errs, concVars>>

\* lines 75-78
FilterStep ==
    /\ pc = "filter"
    /\ calls' = Append(calls, "NewFilter")
    /\ LET f == NewFilter(validateDisabled, validateEnabled, Data) IN
       IF IsErr(f.err)
       THEN Fail(FailFilter, f.err) /\ UNCHANGED filter
       ELSE /\ filter' = f
            /\ pc' = "validate"
            /\ UNCHANGED <<exitCode, failMsg, failErr>>
    /\ UNCHANGED <<regVars, flagVars, meta, bundles, results, success, errs, concVars>>

\* types.NewMetaBundle(meta, bundles)
NewMetaBundle(m, b) == [AddonMeta |-> m, Bundles |-> b]

\* line 80: ValidateCLI is entered
ValidateStart ==
    /\ pc = "validate"
    /\ calls' = Append(calls, "ValidateCLI")
    /\ pc' = "rules"
    /\ UNCHANGED <<regVars, exitCode, failMsg, failErr, flagVars, runVars, concVars>>

\* ValidateCLI runs the next selected rule, in ascending order of Code
RunRule ==
    /\ pc = "rules"
    /\ Len(results) < Len(Selected(Data, filter))
    /\ LET code == Selected(Data, filter)[Len(results) + 1]
           subject == NewMetaBundle(meta, bundles)
       IN  /\ \E r \in Runner(Data[code], subject) :
                results' = Append(results, [Code |-> code, subject |-> subject, out |-> r])
           /\ calls' = Append(calls, code)
    /\ UNCHANGED <<regVars, exitVars, flagVars, meta, bundles, filter, success, errs, concVars>>

\* ValidateCLI returns (success, errs)
ValidateReturn ==
    /\ pc = "rules"
    /\ Len(results) >= Len(Selected(Data, filter))
    /\ LET outs == [i \in DOMAIN results |-> results[i].out] IN
       /\ success' = (Failures(outs) = <<>> /\ HardErrors(outs) = <<>>)
       /\ errs' = HardErrors(outs)
    /\ pc' = "report"
    /\ UNCHANGED <<regVars, exitCode, failMsg, failErr, flagVars, meta, bundles, filter,
                   results, calls, concVars>>

\* ExitStatus without the check of success
ExitStatusErrsOnly(ok, es) == IF Len(es) > 0 THEN 1 ELSE 0

\* lines 81-89: the status validateMain ends the process with
ExitStatus(ok, es) ==
    IF Len(es) > 0 THEN 1
    ELSE IF ~ok THEN 1
    ELSE 0

ReportStep ==
    /\ pc = "report"
    /\ pc' = "exited"
    /\ exitCode' = ExitStatus(success, errs)
    /\ UNCHANGED <<regVars, failMsg, failErr, flagVars, runVars, calls, concVars>>

----------------------------------------------------------------------------
(* Specification of one process: init() functions, then one validate run *)

RunNext(icons) ==
    \/ UsageError
    \/ ParseAddonDirStep
    \/ VerifyStep
    \/ LoadStep(icons)
    \/ ExtractStep
    \/ FilterStep
    \/ ValidateStart
    \/ RunRule
    \/ ValidateReturn
    \/ ReportStep

Next ==
    \/ \E v \in Validators : Add(v)
    \/ InitDone
    \/ ParseFlags(EnvArgs, VersionArgs, CSVArgs, DirArgs)
    \/ RunNext(IconArgs)

Spec == Init /\ [][Next]_vars

----------------------------------------------------------------------------
(* Callers of the registry's read methods, and of the map All() returns *)

CallerNext ==
    \/ CallLen
    \/ \E k \in {"AM0001", "AM0004", "AM9999"} : CallGet(k)
    \/ CallAll
    \/ \E v \in Validators : ViewPut(v)
    \/ \E c \in {"AM0001", "AM0004"} : ViewDelete(c)

NextCaller ==
    \/ \E v \in Validators : Add(v)
    \/ InitDone
    \/ ParseFlags({}, {}, {}, {"dir"})
    \/ RunNext({PngIcon})
    \/ CallerNext

SpecCaller == Init /\ [][NextCaller]_vars

----------------------------------------------------------------------------
(* Add called from several goroutines.  Add takes no lock: the map read of   *)
(* its if statement and the map write after it are separate steps, and a    *)
(* write that overlaps another goroutine's access to the map is a data race *)
(* that the Go runtime may detect, ending the process.                      *)

Alive == pc = "init" /\ ~panicked /\ ~crashed

\* go Registry.Add(v)
ConcCall(g, v) ==
    /\ Alive
    /\ tpc[g] = "idle"
    /\ tpc' = [tpc EXCEPT ![g] = "check"]
    /\ tval' = [tval EXCEPT ![g] = v]
    /\ UNCHANGED <<regVars, exitVars, flagVars, runVars, calls, crashed>>

\* line 22: if _, ok := r.Data[v.Code]; ok { log.Panicf(...) }
ConcAddCheck(g) ==
    /\ Alive
    /\ tpc[g] = "check"
    /\ lastAdd' = [called |-> TRUE, v |-> tval[g], pre |-> Data]
    /\ nAdds' = nAdds + 1
    /\ IF AddExists(Data, tval[g])
       THEN /\ tpc' = [tpc EXCEPT ![g] = "panicked"]
            /\ panicked' = TRUE
            /\ pc' = "exited"
            /\ exitCode' = 2
       ELSE /\ tpc' = [tpc EXCEPT ![g] = "insert"]
            /\ UNCHANGED <<panicked, pc, exitCode>>
    /\ UNCHANGED <<Data, added, initData, view, ret, failMsg, failErr, flagVars, runVars,
                   calls, tval, crashed>>

\* line 25: r.Data[v.Code] = v
ConcAddInsert(g) ==
    /\ Alive
    /\ tpc[g] = "insert"
    /\ Data' = MapPut(Data, tval[g])
    /\ added' = added \cup {tval[g]}
    /\ tpc' = [tpc EXCEPT ![g] = "done"]
    /\ UNCHANGED <<panicked, lastAdd, nAdds, initData, view, ret, exitVars, flagVars,
                   runVars, calls, tval, crashed>>

\* the write of line 25 overlaps another goroutine's access to the map and the
\* runtime throws "concurrent map writes" / "concurrent map read and map write"
ConcRace(g) ==
    /\ Alive
    /\ tpc[g] = "insert"
    /\ \E h \in Goroutines \ {g} : tpc[h] \in {"check", "insert"}
    /\ crashed' = TRUE
    /\ pc' = "exited"
    /\ exitCode' = 2
    /\ UNCHANGED <<regVars, failMsg, failErr, flagVars, runVars, calls, tpc, tval>>

NextConc ==
    \/ \E g \in Goroutines, v \in Validators : ConcCall(g, v)
    \/ \E g \in Goroutines : ConcAddCheck(g)
    \/ \E g \in Goroutines : ConcAddInsert(g)
    \/ \E g \in Goroutines : ConcRace(g)

SpecConc == Init /\ [][NextConc]_vars

----------------------------------------------------------------------------
(* Runs over every short --version string, and over every short icon *)

VersionAlphabet == {"0", "1", "2", ".", "x", "-"}

AllVersions ==
    SeqsUpTo(VersionAlphabet, MaxVerLen) \cup VersionArgs
        \cup {<<"v", "2", ".", "1", ".", "0">>, <<"1", ".", "0", ".", "0", "-", "r", "c">>}

NextVersion ==
    \/ \E v \in {AM0001, AM0004} : Add(v)
    \/ InitDone
    \/ ParseFlags({}, AllVersions, {}, {"dir"})
    \/ RunNext({PngIcon})

SpecVersion == Init /\ [][NextVersion]_vars

IconAlphabet == {"i", "V", "B", "O", "=", "!"}

AllIcons == SeqsUpTo(IconAlphabet, MaxIconLen) \cup IconArgs

NextIcon ==
    \/ Add(AM0004)
    \/ InitDone
    \/ ParseFlags({}, {}, {}, {"dir"})
    \/ RunNext(AllIcons)

SpecIcon == Init /\ [][NextIcon]_vars

----------------------------------------------------------------------------
(* Properties *)

Called(name) == \E i \in DOMAIN calls : calls[i] = name

\* a validate run has ended (the process did not die in an init() function)
RunEnded == pc = "exited" /\ ~panicked /\ ~crashed

\* the environments of the command's usage text
Envs == {"integration", "stage", "production"}

\* C1: an Add of a registered Code panics (process ends) and leaves the map as
\* it was; an Add of a new Code inserts it; every rule whose Add returned is
\* still the rule registered for its Code, and Len() is the number of
\* distinct Codes added.
AddKeepsFirstRule ==
    /\ RegistryLen(Data) = Cardinality({v.Code : v \in added})
    /\ \A v \in added : v.Code \in DOMAIN Data /\ Data[v.Code] = v
    /\ lastAdd.called =>
         IF lastAdd.v.Code \in DOMAIN lastAdd.pre
         THEN panicked /\ pc = "exited" /\ exitCode # 0 /\ Data = lastAdd.pre
         ELSE /\ ~panicked
              /\ DOMAIN Data = DOMAIN lastAdd.pre \cup {lastAdd.v.Code}
              /\ Data[lastAdd.v.Code] = lastAdd.v
              /\ \A c \in DOMAIN lastAdd.pre : Data[c] = lastAdd.pre[c]
    /\ panicked => lastAdd.called /\ lastAdd.v.Code \in DOMAIN lastAdd.pre

\* C1 witness: two Codes were registered and a third Add, of a registered
\* Code with another rule, was aborted
AddDuplicateAborted ==
    /\ panicked
    /\ RegistryLen(Data) = 2
    /\ lastAdd.v # Data[lastAdd.v.Code]

\* C2: a validate run ends with status 0 exactly when no preparation step
\* failed and every selected rule ran, passed and returned no error; in every
\* other case it ends with status 1.
ExitZeroIffAllPassed ==
    RunEnded =>
      /\ exitCode \in {0, 1}
      /\ exitCode = 0 <=>
           /\ failMsg = ""
           /\ Called("ValidateCLI")
           /\ [i \in DOMAIN results |-> results[i].Code] = Selected(Data, filter)
           /\ \A i \in DOMAIN results :
                results[i].out.passed /\ ~IsErr(results[i].out.err)

\* C2 witness: a run in which a rule failed without a hard error ended
RunEndedWithFailure ==
    /\ RunEnded
    /\ failMsg = ""
    /\ \E i \in DOMAIN results : ~results[i].out.passed
    /\ \A i \in DOMAIN results : ~IsErr(results[i].out.err)

\* C3: extraction is attempted only after the metadata was loaded, rules run
\* only after load and extraction succeeded, and a failed load or extraction
\* ends the run with no rule run.
RulesAfterLoadAndExtract ==
    /\ Called("ExtractBundles") => meta.loaded /\ failMsg # FailLoad
    /\ failMsg = FailLoad => ~meta.loaded /\ bundles = "none"
    /\ (Called("ValidateCLI") \/ results # <<>>) =>
          /\ meta.loaded /\ bundles = "extracted"
          /\ failMsg \notin {FailLoad, FailExtract}
    /\ failMsg \in {FailLoad, FailExtract} =>
          /\ pc = "exited" /\ exitCode = 1
          /\ ~Called("ValidateCLI") /\ ~Called("NewFilter") /\ results = <<>>
    /\ \A i \in DOMAIN results :
          results[i].subject.AddonMeta.loaded /\ results[i].subject.Bundles = "extracted"

\* C3 witness: the extraction failed after a successful load
ExtractionFailed == failMsg = FailExtract /\ meta.loaded

\* C4: every configuration error ends the run with status 1 before the
\* metadata load and the bundle extraction are started.
ConfigErrorsBeforeIO ==
    failMsg \in {FailDir, FailFlag, FailFilter} =>
       /\ exitCode = 1
       /\ ~Called("MetaLoader.Load")
       /\ ~Called("ExtractBundles")

\* the filter flags are invalid against the registry d
FilterFlagsInvalid(d) ==
    \/ ParseCSV(validateDisabled) # {} /\ ParseCSV(validateEnabled) # {}
    \/ \E f \in ParseCSV(validateDisabled) \cup ParseCSV(validateEnabled) :
          ~(Len(f) = 1 /\ f[1] \in DOMAIN d)

\* C5: with invalid filter flags no rule is run and the run ends with status
\* 1, filter construction failing when it is reached; with valid flags filter
\* construction succeeds and the run goes on to ValidateCLI.
InvalidFilterRunsNoRule ==
    /\ FilterFlagsInvalid(Data) =>
          /\ results = <<>> /\ ~Called("ValidateCLI")
          /\ pc = "exited" => exitCode = 1
          /\ Called("NewFilter") => pc = "exited" /\ failMsg = FailFilter
    /\ (~FilterFlagsInvalid(Data) /\ Called("NewFilter")) =>
          /\ failMsg = ""
          /\ pc \in {"validate", "rules", "report", "exited"}
          /\ pc \in {"rules", "report", "exited"} => Called("ValidateCLI")

\* C5 witness: filter construction was reached and failed on an unknown code
FilterRejectedUnknownCode ==
    /\ Called("NewFilter")
    /\ failMsg = FailFilter
    /\ failErr.kind = "unknown code"

IsNumeral(s) ==
    /\ s # <<>>
    /\ \A k \in DOMAIN s : s[k] \in Digits
    /\ Len(s) > 1 => s[1] # "0"

\* v is MAJOR.MINOR.PATCH
IsMajorMinorPatch(v) ==
    \E i, j \in DOMAIN v :
       /\ i < j /\ v[i] = "." /\ v[j] = "."
       /\ IsNumeral(SubSeq(v, 1, i - 1))
       /\ IsNumeral(SubSeq(v, i + 1, j - 1))
       /\ IsNumeral(SubSeq(v, j + 1, Len(v)))

\* C6: once the arguments are verified (directory and env being valid), the
\* version is rejected, with an error naming it, exactly when it is not the
\* empty string, "latest" or MAJOR.MINOR.PATCH.
VersionAcceptedIffStrict ==
    (Called("os.Stat") /\ arg0 = "dir" /\ validateEnv \in Envs) =>
       LET strict == \/ validateVersion = <<>>
                     \/ validateVersion = Latest
                     \/ IsMajorMinorPatch(validateVersion)
       IN  IF strict THEN failMsg # FailFlag
           ELSE /\ failMsg = FailFlag
                /\ failErr.kind = "not a valid version"
                /\ failErr.version = validateVersion

\* C7: with an env that is not one of the three literals, or a version that
\* verifyVersion rejects, the run ends with status 1 with no metadata load, no
\* extraction, no NewFilter and no rule run; the env is "stage" until a flag
\* sets it, and "stage" passes the check.
BadEnvOrVersionFailsFirst ==
    /\ (pc \notin {"init", "main"} /\ ~panicked /\
          (validateEnv \notin Envs \/ IsErr(verifyVersion(validateVersion)))) =>
          /\ ~Called("MetaLoader.Load") /\ ~Called("ExtractBundles")
          /\ ~Called("NewFilter") /\ ~Called("ValidateCLI") /\ results = <<>>
          /\ pc = "exited" => exitCode = 1
          /\ Called("os.Stat") => pc = "exited" /\ failMsg \in {FailFlag}
    /\ pc \in {"init", "main"} => validateEnv = "stage"
    /\ (Called("os.Stat") /\ validateEnv = "stage" /\ arg0 = "dir"
          /\ ~IsErr(verifyVersion(validateVersion))) => failMsg # FailFlag

\* C7 witness: a run with a valid directory and version ended on its env
BadEnvRejected ==
    /\ failMsg = FailFlag
    /\ failErr.kind = "not a valid environment"
    /\ ~IsErr(verifyVersion(validateVersion))

\* C8: once the init() functions have run, the registry is the one they left.
RegistryFrozenAfterInit ==
    (pc # "init" /\ ~panicked /\ ~crashed) => Data = initData

\* C9: of two concurrent Adds of one Code at most one inserts (the other
\* panics), and a rule whose Add returned stays registered.
ConcurrentAddSafe ==
    /\ \A g, h \in Goroutines :
          (g # h /\ tval[g].Code = tval[h].Code) => ~(tpc[g] = "done" /\ tpc[h] = "done")
    /\ \A g \in Goroutines : tpc[g] = "done" => Data[tval[g].Code] = tval[g]

\* s is standard padded base64
IsStdBase64(s) ==
    LET n == Len(s)
        pad == IF n >= 1 /\ s[n] = "="
               THEN (IF n >= 2 /\ s[n - 1] = "=" THEN 2 ELSE 1)
               ELSE 0
    IN  /\ n % 4 = 0
        /\ \A k \in 1..(n - pad) : s[k] # "=" /\ IsB64Char(s[k])

\* C10: AM0004 passes exactly when the icon is non-empty, is standard base64
\* and decodes to PNG data; a fail verdict has a message; the rule returns no
\* error and leaves the subject as it was.
IconRuleVerdict ==
    \A i \in DOMAIN results :
       (results[i].Code = "AM0004" /\ Data["AM0004"] = AM0004) =>
          LET icon == results[i].subject.AddonMeta.Icon
              out == results[i].out
          IN  /\ out.passed <=>
                   /\ icon # <<>>
                   /\ IsStdBase64(icon)
                   /\ PngDecodeOK(B64Decode(icon).bytes)
              /\ ~out.passed => out.msg # ""
              /\ ~IsErr(out.err)
              /\ results[i].subject = NewMetaBundle(meta, bundles)
              /\ icon = meta.Icon

\* C10 witness: AM0004 ran on an icon that is base64 of PNG data and passed
IconRulePassed ==
    \E i \in DOMAIN results :
       results[i].Code = "AM0004" /\ Data["AM0004"] = AM0004 /\ results[i].out.passed

====
